---- MODULE Spec2Model ----
(***************************************************************************)
(* A model of pyaff4's AFF4Image stream (src/pyaff4/aff4_image.py): the    *)
(* chunk-buffering write path, bevy finalization, Flush and the random     *)
(* access read path.  Byte strings are sequences of small integers.  The   *)
(* resolver, the volume and the base stream class are external; only the   *)
(* parts AFF4Image touches are modelled.                                   *)
(***************************************************************************)
EXTENDS Integers, Sequences, FiniteSets, TLC

\* ------------------------------------------------------------------ bounds
MaxChunkSize == 2
MaxChunksPerSegment == 2
MaxBytes == 3
MaxOps == 3

STORED == "STORED"
ZLIB == "ZLIB"
SNAPPY == "SNAPPY"
Compressions == {STORED, ZLIB, SNAPPY}

NoError == "none"
StorageResolutionError == "StorageResolutionError"
IndexCorruptionError == "IndexCorruptionError"
CodecError == "CodecError"
NoSuchSegment == "NoSuchSegment"
IndexError == "IndexError"

VARIABLES
    chunk_size,           \* self.chunk_size
    chunks_per_segment,   \* self.chunks_per_segment
    compression,          \* self.compression
    size,                 \* self.size
    readptr,              \* self.readptr (the stream's one position)
    dirty,                \* the base object's dirty flag
    buffer,               \* self.buffer
    bevy,                 \* self.bevy
    bevy_index,           \* self.bevy_index (packed bytes)
    chunk_count_in_bevy,  \* self.chunk_count_in_bevy
    bevy_number,          \* self.bevy_number
    stored,               \* resolver: AFF4_STORED of the stream is set
    metadata,             \* resolver: <<>> or <<the properties Flush set>>
    segments,             \* volume: bevy number -> [index, data, chunks]
    bevy_chunks,          \* history: uncompressed chunks of the current bevy
    written,              \* history: all data passed to Write, concatenated
    sought,               \* history: a Seek has moved the position
    log,                  \* history: the Write/Flush calls made, in order
    last                  \* history: the last call and what it returned

config == <<chunk_size, chunks_per_segment, compression>>
session == <<size, readptr, dirty, buffer, bevy, bevy_index,
             chunk_count_in_bevy, bevy_number, bevy_chunks>>
vars == <<config, session, stored, metadata, segments, written, sought, log, last>>

\* ----------------------------------------------------------------- helpers
Min(a, b) == IF a < b THEN a ELSE b

\* The bytes a caller writes: the n bytes that follow the k already written,
\* each different from every other byte of the stream ("ABCDEFGHIJ").
Fresh(k, n) == [i \in 1..n |-> 64 + k + i]

RECURSIVE Sum(_)
Sum(s) == IF s = <<>> THEN 0 ELSE Head(s) + Sum(Tail(s))

Drop(s, n) == IF n >= Len(s) THEN <<>> ELSE SubSeq(s, n + 1, Len(s))
Take(s, n) == IF n >= Len(s) THEN s ELSE SubSeq(s, 1, n)

\* struct.pack("<I", n): four little-endian bytes.
Pack(n) ==
    <<n % 256, (n \div 256) % 256, (n \div 65536) % 256, (n \div 16777216) % 256>>

\* struct.unpack("<" + "I" * index_size, data): entry k (from 0).
UnpackEntry(data, k) ==
    data[4 * k + 1] + 256 * data[4 * k + 2] + 65536 * data[4 * k + 3]
        + 16777216 * data[4 * k + 4]

Unpack(data) == [k \in 1..(Len(data) \div 4) |-> UnpackEntry(data, k - 1)]

\* ------------------------------------------------------------------ codecs
Checksum(chunk) == (1 + Sum(chunk)) % 251

\* zlib.compress: a header, the payload with its length, a checksum.
ZlibCompress(chunk) == <<120, Len(chunk)>> \o chunk \o <<Checksum(chunk)>>

\* snappy.compress: the uncompressed length, then one literal element.
SnappyCompress(chunk) ==
    IF chunk = <<>> THEN <<0>>
    ELSE <<Len(chunk), 4 * (Len(chunk) - 1)>> \o chunk

Compress(chunk) ==
    IF compression = ZLIB THEN ZlibCompress(chunk)
    ELSE IF compression = SNAPPY THEN SnappyCompress(chunk)
    ELSE chunk

\* zlib.decompress: fails on a truncated or damaged stream, ignores what
\* follows a complete one.
ZlibDecompress(c) ==
    IF /\ Len(c) >= 3
       /\ c[1] = 120
       /\ Len(c) >= c[2] + 3
       /\ c[c[2] + 3] = Checksum(SubSeq(c, 3, c[2] + 2))
    THEN [err |-> NoError, data |-> SubSeq(c, 3, c[2] + 2)]
    ELSE [err |-> CodecError, data |-> <<>>]

\* snappy.decompress: the elements must produce exactly the stated length.
SnappyDecompress(c) ==
    IF c = <<0>> THEN [err |-> NoError, data |-> <<>>]
    ELSE IF /\ Len(c) >= 3
            /\ c[1] > 0
            /\ Len(c) = c[1] + 2
            /\ c[2] = 4 * (c[1] - 1)
    THEN [err |-> NoError, data |-> SubSeq(c, 3, Len(c))]
    ELSE [err |-> CodecError, data |-> <<>>]

Decompress(c) ==
    IF compression = ZLIB THEN ZlibDecompress(c)
    ELSE IF compression = SNAPPY THEN SnappyDecompress(c)
    ELSE [err |-> NoError, data |-> c]

\* -------------------------------------------------------------- write path
\* The write-side state the helpers below transform.
WriteState ==
    [buffer |-> buffer, bevy |-> bevy, bevy_index |-> bevy_index,
     chunk_count_in_bevy |-> chunk_count_in_bevy, bevy_number |-> bevy_number,
     segments |-> segments, bevy_chunks |-> bevy_chunks, err |-> NoError]

\* _FlushBevy without the step to the next bevy number.
_FlushBevySameNumber(s) ==
    IF ~stored THEN [s EXCEPT !.err = StorageResolutionError]
    ELSE IF s.bevy = <<>> THEN s
    ELSE [s EXCEPT
            !.segments = (s.bevy_number :>
                            [index |-> s.bevy_index, data |-> s.bevy,
                             chunks |-> s.bevy_chunks]) @@ s.segments,
            !.chunk_count_in_bevy = 0,
            !.bevy = <<>>,
            !.bevy_index = <<>>,
            !.bevy_chunks = <<>>]

\* _FlushBevy without the reset of the index of the bevy it has finalized.
_FlushBevyKeepsIndex(s) ==
    IF ~stored THEN [s EXCEPT !.err = StorageResolutionError]
    ELSE IF s.bevy = <<>> THEN s
    ELSE [s EXCEPT
            !.segments = (s.bevy_number :>
                            [index |-> s.bevy_index, data |-> s.bevy,
                             chunks |-> s.bevy_chunks]) @@ s.segments,
            !.chunk_count_in_bevy = 0,
            !.bevy_number = s.bevy_number + 1,
            !.bevy = <<>>,
            !.bevy_chunks = <<>>]

_FlushBevy(s) ==
    IF ~stored THEN [s EXCEPT !.err = StorageResolutionError]
    ELSE IF s.bevy = <<>> THEN s
    ELSE [s EXCEPT
            !.segments = (s.bevy_number :>
                            [index |-> s.bevy_index, data |-> s.bevy,
                             chunks |-> s.bevy_chunks]) @@ s.segments,
            !.chunk_count_in_bevy = 0,
            !.bevy_number = s.bevy_number + 1,
            !.bevy = <<>>,
            !.bevy_index = <<>>,
            !.bevy_chunks = <<>>]

\* AppendChunk with the offset taken after the chunk has joined the bevy.
AppendChunkOffsetAfter(s, chunk) ==
    LET compressed_chunk == Compress(chunk)
        bevy_offset == Len(s.bevy \o compressed_chunk)
    IN [s EXCEPT
          !.bevy_index = s.bevy_index \o Pack(bevy_offset),
          !.bevy = s.bevy \o compressed_chunk,
          !.chunk_count_in_bevy = s.chunk_count_in_bevy + 1,
          !.bevy_chunks = Append(s.bevy_chunks, chunk)]

\* FlushChunk up to its last test: the chunk and its offset join the bevy.
AppendChunk(s, chunk) ==
    LET bevy_offset == Len(s.bevy)
        compressed_chunk == Compress(chunk)
    IN [s EXCEPT
          !.bevy_index = s.bevy_index \o Pack(bevy_offset),
          !.bevy = s.bevy \o compressed_chunk,
          !.chunk_count_in_bevy = s.chunk_count_in_bevy + 1,
          !.bevy_chunks = Append(s.bevy_chunks, chunk)]

\* BevyFull with > for >=.
BevyFullLate(s) == s.chunk_count_in_bevy > chunks_per_segment

\* The last test of FlushChunk.
BevyFull(s) == s.chunk_count_in_bevy >= chunks_per_segment

FlushChunk(s, chunk) ==
    LET s1 == AppendChunk(s, chunk)
    IN IF BevyFull(s1) THEN _FlushBevy(s1) ELSE s1

\* BufferOverfull with >= for >.
BufferFull(s) == Len(s.buffer) >= chunk_size

\* The test of Write's chunking loop.
BufferOverfull(s) == Len(s.buffer) > chunk_size

\* WriteLoop with an if for the while: at most one chunk leaves the buffer.
WriteLoopOnce(s) ==
    IF BufferOverfull(s)
    THEN FlushChunk([s EXCEPT !.buffer = Drop(s.buffer, chunk_size)],
                    Take(s.buffer, chunk_size))
    ELSE s

\* The chunking loop of Write; an error leaves the loop where it was raised.
RECURSIVE WriteLoop(_)
WriteLoop(s) ==
    IF s.err # NoError THEN s
    ELSE IF BufferOverfull(s)
    THEN WriteLoop(FlushChunk([s EXCEPT !.buffer = Drop(s.buffer, chunk_size)],
                              Take(s.buffer, chunk_size)))
    ELSE s

SetWriteState(s) ==
    /\ buffer' = s.buffer
    /\ bevy' = s.bevy
    /\ bevy_index' = s.bevy_index
    /\ chunk_count_in_bevy' = s.chunk_count_in_bevy
    /\ bevy_number' = s.bevy_number
    /\ segments' = s.segments
    /\ bevy_chunks' = s.bevy_chunks

\* The chunks handed to FlushChunk so far.
RECURSIVE CountChunks(_, _)
CountChunks(segs, ids) ==
    IF ids = {} THEN 0
    ELSE LET n == CHOOSE x \in ids : TRUE
         IN Len(segs[n].chunks) + CountChunks(segs, ids \ {n})

Emitted == CountChunks(segments, DOMAIN segments) + Len(bevy_chunks)

\* The session, the volume and the resolver as a call finds them.
Snapshot ==
    [size |-> size, dirty |-> dirty, buffer |-> buffer, bevy |-> bevy,
     bevy_index |-> bevy_index, chunk_count_in_bevy |-> chunk_count_in_bevy,
     bevy_number |-> bevy_number, segments |-> segments, metadata |-> metadata,
     emitted |-> Emitted]

\* The record of a call: the position and state it found, its argument,
\* what it returned or raised, and the chunks a Read resolved.
Result(op, arg, ret, data, err, opened) ==
    [op |-> op, pos |-> readptr, before |-> Snapshot, arg |-> arg, ret |-> ret,
     data |-> data, err |-> err, opened |-> opened]

\* NewSize without the update of size.
NewSizeStale(ptr) == size

\* The size Write leaves for a write that ends at position ptr.
NewSize(ptr) == IF ptr > size THEN ptr ELSE size

Write(data) ==
    /\ Len(log) < MaxOps
    /\ Len(written) + Len(data) <= MaxBytes
    /\ LET s == WriteLoop([WriteState EXCEPT !.buffer = buffer \o data])
       IN /\ dirty' = TRUE
          /\ SetWriteState(s)
          /\ IF s.err = NoError
             THEN /\ readptr' = readptr + Len(data)
                  /\ size' = NewSize(readptr')
                  /\ log' = Append(log, "Write")
                  /\ last' = Result("Write", Len(data), Len(data), <<>>, NoError, <<>>)
             ELSE /\ UNCHANGED <<readptr, size>>
                  /\ log' = Append(log, "WriteError")
                  /\ last' = Result("Write", Len(data), 0, <<>>, s.err, <<>>)
    /\ written' = written \o data
    /\ UNCHANGED <<config, stored, metadata, sought>>

\* ------------------------------------------------------------------- flush
Properties ==
    [chunk_size |-> chunk_size, chunks_per_segment |-> chunks_per_segment,
     size |-> size, compression |-> compression]

\* The base stream's Flush, which AFF4Image.Flush ends with: the object is
\* clean afterwards.
SuperFlush == dirty' = FALSE

\* FlushNeeded without the test.
FlushAlways == TRUE

\* The test Flush makes before it writes anything: self.IsDirty().
FlushNeeded == dirty

Flush ==
    /\ Len(log) < MaxOps
    /\ IF FlushNeeded
       THEN LET s1 == FlushChunk(WriteState, buffer)
                s2 == IF s1.err = NoError THEN _FlushBevy(s1) ELSE s1
            IN /\ SetWriteState(s2)
               /\ IF s2.err = NoError
                  THEN /\ metadata' = <<Properties>>
                       /\ SuperFlush
                       /\ log' = Append(log, "Flush")
                  ELSE /\ UNCHANGED <<metadata, dirty>>
                       /\ log' = Append(log, "FlushError")
               /\ last' = Result("Flush", 0, 0, <<>>, s2.err, <<>>)
       ELSE /\ SuperFlush
            /\ log' = Append(log, "Flush")
            /\ last' = Result("Flush", 0, 0, <<>>, NoError, <<>>)
            /\ UNCHANGED <<metadata, buffer, bevy, bevy_index, chunk_count_in_bevy,
                           bevy_number, segments, bevy_chunks>>
    /\ UNCHANGED <<config, size, readptr, stored, written, sought>>

\* --------------------------------------------------------------- read path
\* A segment opened through the resolver: Size, Seek, Tell and Read of the
\* external stream.  SegmentRead returns at most n bytes from position pos.
SegmentRead(data, pos, n) == Take(Drop(data, pos), n)

\* IndexShort with > for >=.
IndexShortOffByOne(chunk_id_in_bevy, index_size) == chunk_id_in_bevy > index_size

\* The second test of _ReadChunkFromBevy: the index has no entry for the chunk.
IndexShort(chunk_id_in_bevy, index_size) == chunk_id_in_bevy >= index_size

\* The end of _ReadChunkFromBevy: the compressed bytes are decompressed.
\* tell is where the segment's position is left, want the length asked for
\* and read the length of cbuffer.
Decoded(d, tell, want, read) ==
    [err |-> d.err, data |-> d.data, tell |-> tell, want |-> want, read |-> read]

\* bevy.Seek(start, 0) and bevy.Read(compressed_chunk_size), then the codec.
ReadCompressed(data, start, compressed_chunk_size) ==
    Decoded(Decompress(SegmentRead(data, start, compressed_chunk_size)),
            Min(start, Len(data))
                + Len(SegmentRead(data, start, compressed_chunk_size)),
            compressed_chunk_size,
            Len(SegmentRead(data, start, compressed_chunk_size)))

Failed(err, tell) ==
    [err |-> err, data |-> <<>>, tell |-> tell, want |-> 0, read |-> 0]

\* ResolveChunk with the last chunk taken one byte short of the segment's end.
ResolveChunkShortOfEnd(chunk_id_in_bevy, index_size, bevy_index_array, data, tell) ==
    IF index_size = 0
    THEN Failed(IndexCorruptionError, tell)
    ELSE IF IndexShort(chunk_id_in_bevy, index_size)
    THEN Failed(IndexCorruptionError, tell)
    ELSE IF chunk_id_in_bevy + 1 > Len(bevy_index_array)
    THEN Failed(IndexError, tell)
    ELSE ReadCompressed(
            data,
            bevy_index_array[chunk_id_in_bevy + 1],
            IF chunk_id_in_bevy = index_size - 1
            THEN Len(data) - tell - 1
            ELSE bevy_index_array[chunk_id_in_bevy + 2]
                    - bevy_index_array[chunk_id_in_bevy + 1])

\* _ReadChunkFromBevy after its first line; bevy_index is the unpacked index,
\* data the bevy segment and tell its position (bevy.Tell()).
ResolveChunk(chunk_id_in_bevy, index_size, bevy_index_array, data, tell) ==
    IF index_size = 0
    THEN Failed(IndexCorruptionError, tell)
    ELSE IF IndexShort(chunk_id_in_bevy, index_size)
    THEN Failed(IndexCorruptionError, tell)
    ELSE IF chunk_id_in_bevy + 1 > Len(bevy_index_array)
    THEN \* Python: tuple index out of range.
         Failed(IndexError, tell)
    ELSE ReadCompressed(
            data,
            bevy_index_array[chunk_id_in_bevy + 1],
            IF chunk_id_in_bevy = index_size - 1
            THEN Len(data) - tell
            ELSE bevy_index_array[chunk_id_in_bevy + 2]
                    - bevy_index_array[chunk_id_in_bevy + 1])

_ReadChunkFromBevy(chunk_id, seg, tell) ==
    ResolveChunk(chunk_id % chunks_per_segment, Len(seg.index) \div 4,
                 Unpack(seg.index), seg.data, tell)

\* What a Read keeps of a chunk it resolved.
Opened(chunk_id, tell, c) ==
    [chunk_id |-> chunk_id, tell |-> tell, want |-> c.want, read |-> c.read,
     got |-> c.data, err |-> c.err]

\* The inner loop of _ReadPartial: the chunks of one opened bevy.  r holds the
\* loop's variables, c is the chunk _ReadChunkFromBevy returned.
RECURSIVE ReadBevyChunks(_, _, _)
NextChunk(r, bevy_id, tell) ==
    IF bevy_id < r.chunk_id \div chunks_per_segment
    THEN r
    ELSE ReadBevyChunks(r, bevy_id, tell)

AfterChunk(r, bevy_id, tell, c) ==
    IF c.err # NoError
    THEN [r EXCEPT !.err = c.err,
                   !.opened = Append(r.opened, Opened(r.chunk_id, tell, c))]
    ELSE NextChunk([r EXCEPT !.result = r.result \o c.data,
                             !.chunks_to_read = r.chunks_to_read - 1,
                             !.chunk_id = r.chunk_id + 1,
                             !.chunks_read = r.chunks_read + 1,
                             !.opened = Append(r.opened, Opened(r.chunk_id, tell, c))],
                   bevy_id, c.tell)

ReadBevyChunks(r, bevy_id, tell) ==
    IF r.chunks_to_read <= 0 THEN r
    ELSE AfterChunk(r, bevy_id, tell,
                    _ReadChunkFromBevy(r.chunk_id, segments[bevy_id], tell))

\* The outer loop of _ReadPartial: one bevy after the other.  Opening a
\* segment the volume does not hold fails; an opened segment starts at 0.
RECURSIVE ReadBevies(_)
ReadBevies(r) ==
    IF r.err # NoError \/ r.chunks_to_read <= 0 THEN r
    ELSE IF (r.chunk_id \div chunks_per_segment) \notin DOMAIN segments
    THEN [r EXCEPT !.err = NoSuchSegment]
    ELSE ReadBevies(ReadBevyChunks(r, r.chunk_id \div chunks_per_segment, 0))

_ReadPartial(chunk_id, chunks_to_read) ==
    ReadBevies([chunk_id |-> chunk_id, chunks_to_read |-> chunks_to_read,
                chunks_read |-> 0, result |-> <<>>, opened |-> <<>>,
                err |-> NoError])

\* The loop of Read; chunk_id is not advanced between its passes.  p is what
\* _ReadPartial returned.
RECURSIVE ReadLoop(_, _, _, _)
AfterPartial(chunk_id, chunks_to_read, result, opened, p) ==
    IF p.err # NoError
    THEN [err |-> p.err, result |-> <<>>, opened |-> opened \o p.opened]
    ELSE IF p.chunks_read = 0
    THEN [err |-> NoError, result |-> result, opened |-> opened]
    ELSE ReadLoop(chunk_id, chunks_to_read - p.chunks_read,
                  result \o p.result, opened \o p.opened)

ReadLoop(chunk_id, chunks_to_read, result, opened) ==
    IF chunks_to_read <= 0
    THEN [err |-> NoError, result |-> result, opened |-> opened]
    ELSE AfterPartial(chunk_id, chunks_to_read, result, opened,
                      _ReadPartial(chunk_id, chunks_to_read))

\* The end of Read: the result is cut to the window.
Trimmed(r, initial_chunk_offset, length) ==
    [err |-> r.err,
     result |-> IF r.err # NoError THEN <<>>
                ELSE IF initial_chunk_offset # 0
                THEN Take(Drop(r.result, initial_chunk_offset), length)
                ELSE Take(r.result, length),
     opened |-> r.opened]

\* What Read(length) returns at position pos, after the clamp of length.
ReadClamped(pos, length) ==
    Trimmed(ReadLoop(pos \div chunk_size, length \div chunk_size + 1, <<>>, <<>>),
            pos % chunk_size, length)

\* What Read(length) returns at position pos: [err, result, opened].
ReadAt(pos, length) == ReadClamped(pos, Min(length, size - pos))

\* Read's record, from what ReadAt returned.
ReadResult(length, r) == Result("Read", length, Len(r.result), r.result, r.err, r.opened)

\* Read with the position moved past the bytes returned.
ReadAdvancing(length) ==
    /\ last' = ReadResult(length, ReadAt(readptr, length))
    /\ readptr' = readptr + Len(ReadAt(readptr, length).result)
    /\ UNCHANGED <<config, size, dirty, buffer, bevy, bevy_index, chunk_count_in_bevy,
                   bevy_number, bevy_chunks, stored, metadata, segments, written,
                   sought, log>>

Read(length) ==
    /\ last' = ReadResult(length, ReadAt(readptr, length))
    /\ UNCHANGED <<config, session, stored, metadata, segments, written, sought, log>>

\* The base stream's Seek(offset, 0), for offsets inside the stream.
Seek(offset) ==
    /\ readptr' = offset
    /\ sought' = TRUE
    /\ last' = [Result("Seek", offset, 0, <<>>, NoError, <<>>) EXCEPT !.pos = offset]
    /\ UNCHANGED <<config, size, dirty, buffer, bevy, bevy_index, chunk_count_in_bevy,
                   bevy_number, bevy_chunks, stored, metadata, segments, written, log>>

\* ------------------------------------------------------------- environment
\* The resolver loses the stream's AFF4_STORED property.
DropStored ==
    /\ Len(log) < MaxOps
    /\ stored
    /\ stored' = FALSE
    /\ log' = Append(log, "DropStored")
    /\ last' = Result("DropStored", 0, 0, <<>>, NoError, <<>>)
    /\ UNCHANGED <<config, session, metadata, segments, written, sought>>

\* The index segment of bevy n loses its last entry (truncated storage).
TruncateIndex(n) ==
    /\ Len(log) < MaxOps
    /\ n \in DOMAIN segments
    /\ Len(segments[n].index) >= 4
    /\ segments' = [segments EXCEPT
                      ![n].index = Take(segments[n].index, Len(segments[n].index) - 4)]
    /\ log' = Append(log, "TruncateIndex")
    /\ last' = Result("TruncateIndex", n, 0, <<>>, NoError, <<>>)
    /\ UNCHANGED <<config, session, stored, metadata, written, sought>>

\* ----------------------------------------------------------- specification
NoSegments == [n \in {} |-> <<>>]

Init ==
    /\ chunk_size \in 1..MaxChunkSize
    /\ chunks_per_segment \in 1..MaxChunksPerSegment
    /\ compression \in Compressions
    /\ size = 0
    /\ readptr = 0
    /\ dirty = FALSE
    /\ buffer = <<>>
    /\ bevy = <<>>
    /\ bevy_index = <<>>
    /\ chunk_count_in_bevy = 0
    /\ bevy_number = 0
    /\ stored = TRUE
    /\ metadata = <<>>
    /\ segments = NoSegments
    /\ bevy_chunks = <<>>
    /\ written = <<>>
    /\ sought = FALSE
    /\ log = <<>>
    /\ last = Result("Open", 0, 0, <<>>, NoError, <<>>)

WriteStep == \E n \in 0..MaxBytes : Write(Fresh(Len(written), n))
ReadStep == \E length \in 0..MaxBytes : Read(length)
SeekStep == \E offset \in 0..size : Seek(offset)
TruncateStep == \E n \in DOMAIN segments : TruncateIndex(n)

Next == WriteStep \/ Flush \/ ReadStep \/ SeekStep

Spec == Init /\ [][Next]_vars

\* The same session with a resolver and a volume that can lose data.
NextEnv == Next \/ DropStored \/ TruncateStep

SpecEnv == Init /\ [][NextEnv]_vars

\* ------------------------------------------------------------------ claims
LastOp(op) == last.op = op
Succeeded == last.err = NoError
OnlyWritesThenFlush ==
    /\ Len(log) >= 2
    /\ log[Len(log)] = "Flush"
    /\ \A i \in 1..(Len(log) - 1) : log[i] = "Write"
Slice(s, o, l) == IF l = 0 THEN <<>> ELSE SubSeq(s, o + 1, o + l)

\* C1: on a fresh session, Write(B), Flush, then Read(len(B)) at position 0
\* returns exactly B and raises nothing, for every B (the empty one and the
\* ones whose length is a multiple of chunk_size included) and every
\* configuration.
C1_RoundTrip ==
    (/\ log = <<"Write", "Flush">>
     /\ LastOp("Read")
     /\ last.pos = 0
     /\ last.arg = Len(written))
    => (Succeeded /\ last.data = written)

\* C2: on a written and flushed stream, Read(l) at position o with
\* 0 <= o and o + l <= size returns the bytes o .. o+l-1 of the written data
\* (stated here for the windows of at least one byte).
C2_RandomAccess ==
    (/\ OnlyWritesThenFlush
     /\ size = Len(written)
     /\ LastOp("Read")
     /\ last.arg >= 1
     /\ last.pos + last.arg <= size)
    => (Succeeded /\ last.data = Slice(written, last.pos, last.arg))

\* C3: a Write that raises leaves dirty, pending_buffer, current_bevy_blob,
\* current_bevy_index, chunk_count_in_bevy, the position and size as the call
\* found them.
C3_WriteAllOrNothing ==
    (LastOp("Write") /\ ~Succeeded)
    => (/\ dirty = last.before.dirty
        /\ buffer = last.before.buffer
        /\ bevy = last.before.bevy
        /\ bevy_index = last.before.bevy_index
        /\ chunk_count_in_bevy = last.before.chunk_count_in_bevy
        /\ readptr = last.pos
        /\ size = last.before.size)

\* C4: a Flush that follows a completed Flush with no Write in between
\* creates no segment, appends no chunk, and leaves bevy_number,
\* chunk_count_in_bevy, current_bevy_blob, current_bevy_index and the
\* persisted metadata as they were.
FlushAfterFlush ==
    /\ LastOp("Flush")
    /\ Len(log) >= 2
    /\ log[Len(log)] = "Flush"
    /\ log[Len(log) - 1] = "Flush"

C4_FlushIdempotent ==
    FlushAfterFlush
    => (/\ segments = last.before.segments
        /\ Emitted = last.before.emitted
        /\ bevy_number = last.before.bevy_number
        /\ chunk_count_in_bevy = last.before.chunk_count_in_bevy
        /\ bevy = last.before.bevy
        /\ bevy_index = last.before.bevy_index
        /\ metadata = last.before.metadata)

\* A second Flush of a stream that holds persisted data.
C4_Witness ==
    /\ FlushAfterFlush
    /\ \E i \in 1..Len(log) : log[i] = "Write"
    /\ written # <<>>
    /\ DOMAIN segments # {}

\* C5: a successful Write(data) returns len(data) and moves the write
\* position by len(data); size never decreases and is never below the write
\* position; with Writes and Flushes only, size is the number of bytes written,
\* and that is the size a Flush persists.
C5_SizeAndCursor ==
    /\ size >= last.before.size
    /\ size >= readptr
    /\ (LastOp("Write") /\ Succeeded)
       => (last.ret = last.arg /\ readptr = last.pos + last.arg)
    /\ ~sought => size = Len(written)
    /\ (LastOp("Flush") /\ Succeeded /\ last.before.dirty)
       => (metadata # <<>> /\ metadata[1].size = size)

\* A Flush has persisted the size of a stream written in two Writes.
C5_Witness ==
    /\ log = <<"Write", "Write", "Flush">>
    /\ LastOp("Flush")
    /\ ~sought
    /\ size = MaxBytes
    /\ last.before.buffer # written
    /\ metadata # <<>>

\* C6: a Read that reaches a chunk whose chunk_id_in_bevy is not below the
\* number of entries of its bevy's index, or whose bevy's index is empty,
\* raises the index-corruption error and returns no data.
IndexEntries(n) == Len(segments[n].index) \div 4
IndexTooShort(chunk_id) ==
    LET n == chunk_id \div chunks_per_segment
    IN /\ n \in DOMAIN segments
       /\ \/ IndexEntries(n) = 0
          \/ chunk_id % chunks_per_segment >= IndexEntries(n)

RolloverWritten ==
    /\ OnlyWritesThenFlush
    /\ Len(written) = (chunks_per_segment + 1) * chunk_size

C7_BevyRollover ==
    RolloverWritten
    => (/\ DOMAIN segments = {0, 1}
        /\ Len(segments[0].index) = 4 * chunks_per_segment
        /\ Len(segments[1].index) = 4
        /\ bevy_number = 2)

\* The rollover amount was written in two Writes, neither of them empty.
C7_Witness ==
    /\ RolloverWritten
    /\ log = <<"Write", "Write", "Flush">>
    /\ chunks_per_segment >= 2
    /\ LastOp("Flush")
    /\ last.before.buffer # <<>>
    /\ last.before.buffer # written

\* C8: every persisted index segment holds one 4-byte offset per chunk of its
\* bevy, in chunk order; the first is 0, they never decrease, and the offsets
\* of chunk i and chunk i+1 differ by the compressed length of chunk i.
IndexIntact(seg) ==
    LET offsets == Unpack(seg.index)
        n == Len(seg.chunks)
    IN /\ Len(seg.index) = 4 * n
       /\ n >= 1
       /\ offsets[1] = 0
       /\ \A i \in 1..(n - 1) :
             /\ offsets[i + 1] >= offsets[i]
             /\ offsets[i + 1] - offsets[i] = Len(Compress(seg.chunks[i]))
             /\ SubSeq(seg.data, offsets[i] + 1, offsets[i + 1]) = Compress(seg.chunks[i])

C8_IndexIntegrity == \A n \in DOMAIN segments : IndexIntact(segments[n])

\* A persisted bevy of two chunks, the second at a non-zero offset.
C8_Witness ==
    \E n \in DOMAIN segments :
        /\ Len(segments[n].chunks) >= 2
        /\ Unpack(segments[n].index)[2] > 0

\* C9: on a fresh session a Write of exactly chunk_size bytes emits no chunk;
\* a Write emits a chunk only while the pending buffer is strictly longer than
\* chunk_size.
Pending == Len(last.before.buffer) + last.arg

C9_ChunkingBoundary ==
    /\ (log = <<"Write">> /\ Len(written) = chunk_size)
       => (/\ bevy_index = <<>>
           /\ chunk_count_in_bevy = 0
           /\ Emitted = 0
           /\ segments = NoSegments
           /\ buffer = written)
    /\ (LastOp("Write") /\ Succeeded)
       => (/\ Emitted - last.before.emitted =
                 IF Pending <= chunk_size THEN 0 ELSE (Pending - 1) \div chunk_size
           /\ Len(buffer) = Pending - chunk_size * (Emitted - last.before.emitted))

\* One Write of exactly chunk_size bytes on a fresh session.
C9_Witness ==
    /\ log = <<"Write">>
    /\ LastOp("Write")
    /\ last.arg = chunk_size
    /\ Len(written) = chunk_size

\* C10: Write(data) leaves the read position where it was.
C10_WriteKeepsReadCursor ==
    (LastOp("Write") /\ Succeeded) => readptr = last.pos

\* C11: Read(length) leaves the position, size, pending_buffer,
\* current_bevy_blob, current_bevy_index, chunk_count_in_bevy, bevy_number and
\* the dirty flag as it found them, so the same Read made again returns the
\* same bytes.
C11_ReadChangesNothing ==
    LastOp("Read")
    => (/\ readptr = last.pos
        /\ size = last.before.size
        /\ buffer = last.before.buffer
        /\ bevy = last.before.bevy
        /\ bevy_index = last.before.bevy_index
        /\ chunk_count_in_bevy = last.before.chunk_count_in_bevy
        /\ bevy_number = last.before.bevy_number
        /\ dirty = last.before.dirty
        /\ ReadAt(readptr, last.arg).result = last.data
        /\ ReadAt(readptr, last.arg).err = last.err)

\* A Read away from the start of the stream has returned bytes.
C11_Witness ==
    /\ LastOp("Read")
    /\ Succeeded
    /\ last.pos > 0
    /\ last.data # <<>>

\* C12: a Read(length) of at least one byte at position p decompresses only
\* chunks whose number lies in floor(p / chunk_size) ..
\* floor((p + length - 1) / chunk_size).
C12_ReadOnlyWindowChunks ==
    (LastOp("Read") /\ Succeeded /\ last.arg >= 1)
    => \A i \in DOMAIN last.opened :
          last.opened[i].err = NoError
          => /\ last.opened[i].chunk_id >= last.pos \div chunk_size
             /\ last.opened[i].chunk_id <= (last.pos + last.arg - 1) \div chunk_size

\* C13: after every Write call returns, len(pending_buffer) < chunk_size.
C13_BufferBelowChunkSize ==
    (LastOp("Write") /\ Succeeded) => Len(buffer) < chunk_size

\* C13, amended: after every Write call returns, len(pending_buffer) <=
\* chunk_size, and the pending buffer holds the last bytes written.
C13_BufferAtMostChunkSize ==
    (LastOp("Write") /\ Succeeded)
    => /\ Len(buffer) <= chunk_size
       /\ Len(buffer) <= Len(last.before.buffer) + last.arg
       /\ (last.arg >= 1 /\ Len(last.before.buffer) + last.arg >= chunk_size)
          => Len(buffer) >= 1

\* A Write has cut chunks out of the buffer and left a whole chunk pending.
C13_Witness ==
    /\ LastOp("Write")
    /\ Succeeded
    /\ Emitted > last.before.emitted
    /\ Len(buffer) = chunk_size

\* The uncompressed chunks of the bevies 0 .. n - 1, in stream order.
RECURSIVE PersistedChunks(_)
PersistedChunks(n) ==
    IF n = 0 THEN <<>>
    ELSE PersistedChunks(n - 1)
         \o (IF (n - 1) \in DOMAIN segments THEN segments[n - 1].chunks ELSE <<>>)

\* C14: after any sequence of Write and Flush calls, every chunk persisted in
\* a bevy holds exactly chunk_size uncompressed bytes, except possibly the
\* last chunk of the whole stream.
C14_OnlyLastChunkShort ==
    \A i \in 1..(Len(PersistedChunks(bevy_number)) - 1) :
        Len(PersistedChunks(bevy_number)[i]) = chunk_size

\* C15: between calls, 0 <= chunk_count_in_bevy < chunks_per_segment.
C15_ChunkCountInRange ==
    /\ chunk_count_in_bevy >= 0
    /\ chunk_count_in_bevy < chunks_per_segment

\* C16: between calls, current_bevy_index holds a whole number of 4-byte
\* offsets, as many as chunk_count_in_bevy.
C16_IndexMatchesCount ==
    /\ Len(bevy_index) % 4 = 0
    /\ Len(bevy_index) \div 4 = chunk_count_in_bevy

\* A bevy has been finalized and the next one holds a chunk.
C16_Witness ==
    /\ bevy_number >= 1
    /\ chunk_count_in_bevy >= 1
    /\ bevy # <<>>

\* A Flush that found the session dirty and whose FlushChunk left
\* current_bevy_blob empty: every _FlushBevy it called found an empty bevy.
FlushedEmptyBevy ==
    /\ LastOp("Flush")
    /\ last.before.dirty
    /\ last.before.bevy \o Compress(last.before.buffer) = <<>>

\* C17: finalizing an empty bevy is a no-op: no segment is created,
\* bevy_number, chunk_count_in_bevy and current_bevy_index stay as FlushChunk
\* left them and no error is reported, with or without a recorded volume.
C17_EmptyFinalizeNoOp ==
    FlushedEmptyBevy
    => /\ last.err = NoError
       /\ segments = last.before.segments
       /\ bevy_number = last.before.bevy_number
       /\ chunk_count_in_bevy = last.before.chunk_count_in_bevy + 1
       /\ bevy_index = last.before.bevy_index \o Pack(0)

\* C18: bevy_number is the number of bevies persisted, the bevies are numbered
\* 0 .. bevy_number - 1, a call that persists bevies names them with the
\* numbers from the bevy_number it found and leaves the earlier bevies alone,
\* only Write and Flush change bevy_number, and a Flush that has finalized a
\* bevy leaves chunk_count_in_bevy 0 and the bevy blob and index empty.
C18_BevyNumberCountsBevies ==
    /\ DOMAIN segments = 0..(bevy_number - 1)
    /\ bevy_number = Cardinality(DOMAIN segments)
    /\ bevy_number >= last.before.bevy_number
    /\ \A n \in DOMAIN last.before.segments :
          /\ n \in DOMAIN segments
          /\ segments[n].data = last.before.segments[n].data
    /\ \A n \in DOMAIN segments \ DOMAIN last.before.segments :
          /\ n >= last.before.bevy_number
          /\ segments[n].data # <<>>
    /\ bevy_number # last.before.bevy_number => last.op \in {"Write", "Flush"}
    /\ (LastOp("Flush") /\ Succeeded /\ bevy_number # last.before.bevy_number)
       => /\ chunk_count_in_bevy = 0
          /\ bevy = <<>>
          /\ bevy_index = <<>>

\* A Flush has persisted the second bevy of the session.
C18_Witness ==
    /\ LastOp("Flush")
    /\ Succeeded
    /\ last.before.bevy_number = 1
    /\ bevy_number = 2

\* The bevy that holds chunk chunk_id, and the chunk's place in it.
BevyOf(chunk_id) == segments[chunk_id \div chunks_per_segment]
IsLastEntry(chunk_id) ==
    (chunk_id % chunks_per_segment) = (Len(BevyOf(chunk_id).index) \div 4) - 1
StartOffset(chunk_id) ==
    Unpack(BevyOf(chunk_id).index)[(chunk_id % chunks_per_segment) + 1]

\* C19: for a chunk that is the last entry of its bevy's index, the compressed
\* bytes read are the data segment's size minus the chunk's start offset,
\* wherever the segment's position was when the chunk was resolved; the length
\* asked of the segment is its size minus that position.
C19_LastChunkToEndOfSegment ==
    LastOp("Read")
    => \A i \in DOMAIN last.opened :
          IsLastEntry(last.opened[i].chunk_id)
          => /\ last.opened[i].read
                  = Len(BevyOf(last.opened[i].chunk_id).data)
                      - StartOffset(last.opened[i].chunk_id)
             /\ last.opened[i].want
                  = Len(BevyOf(last.opened[i].chunk_id).data) - last.opened[i].tell

\* A Read has opened a bevy at its last chunk, which does not start the data
\* segment, and has gone on to the next bevy.
C19_Witness ==
    /\ LastOp("Read")
    /\ Succeeded
    /\ \E i \in DOMAIN last.opened :
          /\ IsLastEntry(last.opened[i].chunk_id)
          /\ last.opened[i].tell = 0
          /\ StartOffset(last.opened[i].chunk_id) > 0
          /\ last.opened[i].read >= 1
          /\ last.opened[i].want > last.opened[i].read
          /\ i < Len(last.opened)

\* The bytes of a sequence of chunks, in order.
RECURSIVE Flatten(_)
Flatten(chunks) ==
    IF chunks = <<>> THEN <<>> ELSE Head(chunks) \o Flatten(Tail(chunks))

PersistedBytes == Flatten(PersistedChunks(bevy_number))

\* C20: no written byte is persisted twice: the persisted chunks, in bevy and
\* chunk order, always spell a prefix of the data passed to Write, and after a
\* Flush pending_buffer is empty and they spell all of it.
C20_EachByteOnce ==
    /\ Len(PersistedBytes) <= Len(written)
    /\ PersistedBytes = Take(written, Len(PersistedBytes))
    /\ (LastOp("Flush") /\ Succeeded)
       => /\ buffer = <<>>
          /\ PersistedBytes = written

====
